---------------------------- MODULE Spec2Model ----------------------------
(***************************************************************************)
(* Model of main.py: a FastAPI facade over an Instagram client library.   *)
(*                                                                         *)
(* State: the module-level registry active_sessions (token -> Client),    *)
(* the files of the sessions/ directory, the requests in flight and the   *)
(* single event loop that runs every "async def" handler.                 *)
(*                                                                         *)
(* Scheduling: verify_token is a plain "def" dependency, so it runs in a  *)
(* worker thread and the request is suspended between the token check and *)
(* the handler body.  Every handler is an "async def" whose body contains *)
(* no await: once its body starts it keeps the event loop until it        *)
(* returns, its calls to the platform client included.                    *)
(*                                                                         *)
(* Answers: a step that answers a request puts the answer into the        *)
(* variable answer, and Send takes it out before the next step: answer is *)
(* where the properties read what a request was answered.                 *)
(***************************************************************************)
EXTENDS Integers, FiniteSets, Sequences, TLC

\* ------------------------------------------------------------------ bounds
\* number of Client() objects created in one run (one per login request)
MaxLogins == 2

\* ------------------------------------------------------------ value sets
Usernames == {"alice"}
\* the guarded requests that can be in flight together
Reqs == {"r1", "r2"}
\* readings of datetime.now().timestamp(): two, so that two logins can read
\* the same value and can read different values
ClockValues == {"t0", "t1"}

\* the operations guarded by Depends(verify_token)
Ops ==
    {"logout", "user-info", "user-posts", "upload-photo", "like-post",
     "comment-post", "search-users", "followers"}

ProxyOps == Ops \ {"logout"}

\* what client.login(username) raises when the platform turns the restored
\* state down
ReloginFailures == {"relogin:LoginRequired", "relogin:Other"}

\* outcomes of the three steps of load_session when the file exists: open and
\* json.load, client.set_settings, client.login(username)
RestoreFailures == {"read_failed", "settings_failed"} \cup ReloginFailures

RestoreOutcomes == {"ok"} \cup RestoreFailures

\* outcomes of client.login(username, password)
LoginOutcomes ==
    {"ok", "LoginRequired", "ChallengeRequired", "PleaseWaitFewMinutes", "Other"}

\* the text of an exception raised by the platform client
PlatformMessage == "platform says no"

FreshMessage == "Login exitoso"
ResumedMessage == "Login exitoso (sesión reutilizada)"

\* ---------------------------------------------------------------- state
VARIABLES
    active_sessions,  \* the registry: a function from tokens to client handles
    session_files,    \* usernames that have a file sessions/<u>_session.json
    stored,           \* usernames whose file was written by a login of this run
    removed,          \* tokens deleted by a logout and not issued again since
    clients,          \* number of Client() objects created so far
    loop,             \* who holds the event loop
    req,              \* the guarded requests in flight, per slot
    answer            \* the answer being sent, if any

vars ==
    <<active_sessions, session_files, stored, removed, clients, loop, req,
      answer>>

\* --------------------------------------------------- pure parts of the code

\* f"{request.username}_{datetime.now().timestamp()}": the username, an
\* underscore and the decimal text of a float.  The text of a float holds no
\* underscore, so the string splits back into exactly one (username, reading)
\* pair: the pair stands for the string.
SessionToken(username, ts) == <<username, ts>>

Tokens == {SessionToken(u, ts) : u \in Usernames, ts \in ClockValues}

NoToken == <<"none", "none">>

\* active_sessions[session_token] = client
StoreSession_keep(sessions, token, client) ==
    IF token \in DOMAIN sessions
    THEN sessions
    ELSE [t \in DOMAIN sessions \cup {token} |->
            IF t = token THEN client ELSE sessions[t]]

StoreSession(sessions, token, client) ==
    [t \in DOMAIN sessions \cup {token} |->
        IF t = token THEN client ELSE sessions[t]]

\* verify_token: 401 when the token is no key of the registry, else the token
\* goes on to the handler (0: no error)
verify_token(token, sessions) ==
    IF token \notin DOMAIN sessions THEN 401 ELSE 0

\* load_session: True only when the file exists and reading it, set_settings
\* and client.login(username) all return; any exception is logged and the
\* function returns False
load_session_unchecked(has_file, outcome) == has_file

load_session_never(has_file, outcome) == FALSE

load_session(has_file, outcome) == has_file /\ outcome = "ok"

\* save_session: writes the file, a failure is logged and swallowed
save_session(files, username, write_ok) ==
    IF write_ok THEN files \cup {username} ELSE files

\* the except clauses of login: status and detail per exception class
LoginFailure_swapped(kind) ==
    CASE kind = "LoginRequired" ->
            [status |-> 400, detail |-> <<"Credenciales incorrectas">>]
      [] kind = "ChallengeRequired" ->
            [status |-> 400,
             detail |-> <<"Challenge requerido. Verifica tu cuenta desde la app oficial.">>]
      [] kind = "PleaseWaitFewMinutes" ->
            [status |-> 500, detail |-> <<"Error interno: ", PlatformMessage>>]
      [] OTHER ->
            [status |-> 500, detail |-> <<"Error interno: ", PlatformMessage>>]

LoginFailure(kind) ==
    CASE kind = "LoginRequired" ->
            [status |-> 400, detail |-> <<"Credenciales incorrectas">>]
      [] kind = "ChallengeRequired" ->
            [status |-> 400,
             detail |-> <<"Challenge requerido. Verifica tu cuenta desde la app oficial.">>]
      [] kind = "PleaseWaitFewMinutes" ->
            [status |-> 429, detail |-> <<"Demasiados intentos. Espera unos minutos.">>]
      [] OTHER ->
            [status |-> 500, detail |-> <<"Error interno: ", PlatformMessage>>]

\* logout's body: "if token in active_sessions: del active_sessions[token]",
\* then the success answer
LogoutResult_unguarded(sessions, token) ==
    IF token \in DOMAIN sessions
    THEN [sessions |-> [t \in DOMAIN sessions \ {token} |-> sessions[t]],
          status |-> 200]
    ELSE [sessions |-> sessions, status |-> 500]

LogoutResult(sessions, token) ==
    [sessions |->
        IF token \in DOMAIN sessions
        THEN [t \in DOMAIN sessions \ {token} |-> sessions[t]]
        ELSE sessions,
     status |-> 200]

\* the methods of the platform client a handler calls, in order
ClientCalls_single(op) ==
    CASE op = "user-info" -> <<"user_info_by_username">>
      [] op = "user-posts" -> <<"user_medias">>
      [] op = "followers" -> <<"user_followers">>
      [] op = "upload-photo" -> <<"photo_upload">>
      [] op = "like-post" -> <<"media_like">>
      [] op = "comment-post" -> <<"media_comment">>
      [] op = "search-users" -> <<"search_users">>
      [] OTHER -> <<>>

ClientCalls(op) ==
    CASE op = "user-info" -> <<"user_info_by_username">>
      [] op = "user-posts" -> <<"user_id_from_username", "user_medias">>
      [] op = "followers" -> <<"user_id_from_username", "user_followers">>
      [] op = "upload-photo" -> <<"photo_upload">>
      [] op = "like-post" -> <<"media_like">>
      [] op = "comment-post" -> <<"media_comment">>
      [] op = "search-users" -> <<"search_users">>
      [] OTHER -> <<>>

\* ------------------------------------------------------------- records
LoopFree == [who |-> "free", r |-> "none", username |-> "none", client |-> 0]

IdleReq == [pc |-> "idle", op |-> "none", token |-> NoToken, file |-> TRUE]

\* An answer: of /api/login (kind "login") or of a guarded operation (kind
\* "request"; stage tells whether the token check or the handler body made it).
\* calls counts the platform calls of a guarded request; cred_calls counts
\* client.login(username, password), relogin_calls client.login(username).
NoAnswer ==
    [kind |-> "none", op |-> "none", stage |-> "none",
     token |-> NoToken, file |-> TRUE, status |-> 0, calls |-> 0,
     message |-> "", detail |-> <<>>, client |-> 0, username |-> "none",
     restore |-> "none", cred |-> "none", cred_calls |-> 0, relogin_calls |-> 0]

RequestAnswer(r, stage, status, calls) ==
    [NoAnswer EXCEPT
       !.kind = "request", !.op = req[r].op, !.stage = stage,
       !.token = req[r].token, !.file = req[r].file, !.status = status,
       !.calls = calls]

\* no answer is waiting to be sent
Quiet == answer.kind = "none"

\* ---------------------------------------------------------------- Init
\* active_sessions = {} at import; sessions/ may hold files of earlier runs
Init ==
    /\ active_sessions = <<>>
    /\ session_files \in SUBSET Usernames
    /\ stored = {}
    /\ removed = {}
    /\ clients = 0
    /\ loop = LoopFree
    /\ req = [r \in Reqs |-> IdleReq]
    /\ answer = NoAnswer

\* -------------------------------------------------------------- answers
\* the answer is written to the connection
Send ==
    /\ ~Quiet
    /\ answer' = NoAnswer
    /\ UNCHANGED <<active_sessions, session_files, stored, removed, clients, loop, req>>

\* --------------------------------------------------------------- login
\* login, up to its first call of the platform: client = Client(), then
\* load_session / client.login block the event loop
LoginCall(username) ==
    /\ Quiet
    /\ loop.who = "free"
    /\ clients < MaxLogins
    /\ clients' = clients + 1
    /\ loop' = [who |-> "login", r |-> "none", username |-> username,
                client |-> clients + 1]
    /\ UNCHANGED <<active_sessions, session_files, stored, removed, req,
                   answer>>

\* login, from the return of its platform calls to its answer.  ts is what
\* datetime.now().timestamp() reads: the wall clock, which the code reads once
\* per login and which nothing keeps from reading the same value again (two
\* logins closer than the timer's resolution, or a clock set back in between)
LoginReturn(restore, cred, write_ok, ts) ==
    /\ Quiet
    /\ loop.who = "login"
    /\ LET username == loop.username
           client == loop.client
           has_file == username \in session_files
           token == SessionToken(username, ts)
           base == [NoAnswer EXCEPT
                      !.kind = "login",
                      !.username = username,
                      !.client = client,
                      !.restore = IF has_file THEN restore ELSE "no_file",
                      \* client.login(username) runs when the file was read
                      \* and applied
                      !.relogin_calls =
                          IF has_file /\ restore \in {"ok"} \cup ReloginFailures
                          THEN 1 ELSE 0]
       IN  IF load_session(has_file, restore)
           THEN /\ active_sessions' = StoreSession(active_sessions, token, client)
                /\ removed' = removed \ {token}
                /\ answer' = [base EXCEPT
                                !.status = 200,
                                !.message = ResumedMessage,
                                !.token = token]
                /\ UNCHANGED <<session_files, stored>>
           ELSE IF cred = "ok"
           THEN /\ session_files' = save_session(session_files, username, write_ok)
                /\ stored' = save_session(stored, username, write_ok)
                /\ active_sessions' = StoreSession(active_sessions, token, client)
                /\ removed' = removed \ {token}
                /\ answer' = [base EXCEPT
                                !.status = 200,
                                !.message = FreshMessage,
                                !.token = token,
                                !.cred = "ok",
                                !.cred_calls = 1]
           ELSE /\ answer' = [base EXCEPT
                                !.status = LoginFailure(cred).status,
                                !.detail = LoginFailure(cred).detail,
                                !.cred = cred,
                                !.cred_calls = 1]
                /\ UNCHANGED <<active_sessions, session_files, stored, removed>>
    /\ loop' = LoopFree
    /\ UNCHANGED <<clients, req>>

\* A call that login does not make has no outcome to choose: without a
\* session file nothing is restored, a resumed login makes no credentialed call
\* and writes no file, a failed login writes no file and reads no clock.
Made(restore, cred, write_ok, ts) ==
    LET has_file == loop.username \in session_files
    IN  /\ (~has_file => restore = "ok")
        /\ (load_session(has_file, restore) => (cred = "ok" /\ write_ok))
        /\ (cred # "ok" => (write_ok /\ ts = "t0"))

login ==
    \/ \E username \in Usernames : LoginCall(username)
    \/ \E restore \in RestoreOutcomes, cred \in LoginOutcomes,
          write_ok \in BOOLEAN, ts \in ClockValues :
          /\ Made(restore, cred, write_ok, ts)
          /\ LoginReturn(restore, cred, write_ok, ts)

\* ------------------------------------------------------- token check
\* a guarded request arrives; Depends(verify_token) runs in a worker thread
VerifyToken(r, op, token, file) ==
    /\ Quiet
    /\ req[r].pc = "idle"
    /\ LET err == verify_token(token, active_sessions)
           arrived == [pc |-> "verified", op |-> op, token |-> token, file |-> file]
       IN  IF err # 0
           THEN /\ answer' = [NoAnswer EXCEPT
                                !.kind = "request", !.op = op,
                                !.stage = "verify_token", !.token = token,
                                !.status = err]
                /\ req' = req
           ELSE /\ req' = [req EXCEPT ![r] = arrived]
                /\ answer' = answer
    /\ UNCHANGED <<active_sessions, session_files, stored, removed, clients, loop>>

Arrive ==
    \E r \in Reqs, op \in Ops, token \in Tokens, file \in BOOLEAN :
        /\ (op # "upload-photo" => file)
        /\ VerifyToken(r, op, token, file)

\* -------------------------------------------------------------- logout
logout ==
    \E r \in Reqs :
        /\ Quiet
        /\ req[r].pc = "verified"
        /\ req[r].op = "logout"
        /\ loop.who = "free"
        /\ LET res == LogoutResult(active_sessions, req[r].token)
           IN  /\ active_sessions' = res.sessions
               /\ removed' = IF req[r].token \in DOMAIN active_sessions
                                /\ req[r].token \notin DOMAIN res.sessions
                             THEN removed \cup {req[r].token}
                             ELSE removed
               /\ answer' = RequestAnswer(r, "body", res.status, 0)
        /\ req' = [req EXCEPT ![r] = IdleReq]
        /\ UNCHANGED <<session_files, stored, clients, loop>>

\* ----------------------------------------------------- proxy handlers
\* The body of a proxy handler up to its first platform call.
\*   client = active_sessions[token]   KeyError when the token is gone; the
\*                                     handler's "except Exception" answers 500
\*   upload_photo only: the file check raises HTTPException(400) inside the
\*                      try block; HTTPException is an Exception, so the same
\*                      except clause catches it and answers 500
\* Otherwise the handler enters the platform client and holds the event loop.
HandlerCall(r, op) ==
    /\ Quiet
    /\ req[r].pc = "verified"
    /\ req[r].op = op
    /\ loop.who = "free"
    /\ IF req[r].token \notin DOMAIN active_sessions
       THEN /\ answer' = RequestAnswer(r, "body", 500, 0)
            /\ req' = [req EXCEPT ![r] = IdleReq]
            /\ loop' = loop
       ELSE IF op = "upload-photo" /\ ~req[r].file
       THEN /\ answer' = RequestAnswer(r, "body", 500, 0)
            /\ req' = [req EXCEPT ![r] = IdleReq]
            /\ loop' = loop
       ELSE /\ req' = [req EXCEPT ![r].pc = "calling"]
            /\ loop' = [who |-> "request", r |-> r, username |-> "none",
                        client |-> active_sessions[req[r].token]]
            /\ answer' = answer
    /\ UNCHANGED <<active_sessions, session_files, stored, removed, clients>>

\* The platform calls of a handler return.  failed_at = 0: every call
\* returned; failed_at = n: the n-th call raised, the later ones are not made
\* and "except Exception" answers 500.
HandlerReturn(r, op, failed_at) ==
    /\ Quiet
    /\ req[r].pc = "calling"
    /\ req[r].op = op
    /\ loop.who = "request"
    /\ loop.r = r
    /\ failed_at \in 0..Len(ClientCalls(op))
    /\ answer' = RequestAnswer(r, "body",
                               IF failed_at = 0 THEN 200 ELSE 500,
                               IF failed_at = 0 THEN Len(ClientCalls(op))
                               ELSE failed_at)
    /\ req' = [req EXCEPT ![r] = IdleReq]
    /\ loop' = LoopFree
    /\ UNCHANGED <<active_sessions, session_files, stored, removed, clients>>

Handler(op) ==
    \E r \in Reqs :
        \/ HandlerCall(r, op)
        \/ \E failed_at \in 0..2 : HandlerReturn(r, op, failed_at)

get_user_info == Handler("user-info")

get_user_posts == Handler("user-posts")

upload_photo == Handler("upload-photo")

like_post == Handler("like-post")

comment_post == Handler("comment-post")

search_users == Handler("search-users")

get_followers == Handler("followers")

\* -------------------------------------------------------------- health
\* answers len(active_sessions); needs the event loop, changes nothing
health_check ==
    /\ Quiet
    /\ loop.who = "free"
    /\ UNCHANGED vars

\* ---------------------------------------------------------------- Next
Next ==
    \/ Send
    \/ login
    \/ Arrive
    \/ logout
    \/ get_user_info
    \/ get_user_posts
    \/ upload_photo
    \/ like_post
    \/ comment_post
    \/ search_users
    \/ get_followers
    \/ health_check

Spec == Init /\ [][Next]_vars

\* ----------------------------------------------------------- properties

Range(f) == {f[x] : x \in DOMAIN f}

\* this step is login's answer
LoginAnswered == answer'.kind = "login"

\* C1: a guarded request whose token is no key of the registry when it is
\* answered (never issued, or removed by a logout, also by one that ran after
\* the request's token check) gets 401, has made no platform call and leaves
\* the registry as it was.
C1_StaleTokenUnauthorized ==
    [][(answer'.kind = "request" /\ answer'.token \notin DOMAIN active_sessions)
        => /\ answer'.status = 401
           /\ answer'.calls = 0
           /\ active_sessions' = active_sessions]_vars

\* C2: the token a successful login returns passes verify_token right after
\* the login and is the key of the client handle that this login created.
C2_LoginTokenAuthorizes ==
    [][(LoginAnswered /\ answer'.status = 200)
        => /\ verify_token(answer'.token, active_sessions') = 0
           /\ active_sessions'[answer'.token] = loop.client
           /\ answer'.client = loop.client
           /\ loop.client \notin Range(active_sessions)]_vars

C2_Witness ==
    /\ answer.kind = "login"
    /\ answer.status = 200
    /\ answer.client > 1
    /\ answer.token \in DOMAIN active_sessions
    /\ active_sessions[answer.token] = answer.client

\* C3 as stated: a second logout with a token that a first logout removed is
\* answered without an error and leaves the registry unchanged.
C3_SecondLogoutSucceeds ==
    [][(answer'.kind = "request" /\ answer'.op = "logout"
            /\ answer'.token \in removed)
        => /\ answer'.status = 200
           /\ active_sessions' = active_sessions]_vars

\* C3 amended: a second logout with a token that a first logout removed never
\* gets a server error and leaves the registry unchanged; the token check
\* answers it 401, unless that check ran before the first logout removed the
\* token, and then the body answers success.
C3_SecondLogoutHarmless ==
    [][(answer'.kind = "request" /\ answer'.op = "logout"
            /\ answer'.token \in removed)
        => /\ answer'.status \in {200, 401}
           /\ (answer'.status = 401 <=> answer'.stage = "verify_token")
           /\ (answer'.status = 200 <=> answer'.stage = "body")
           /\ active_sessions' = active_sessions]_vars

C3_Witness ==
    /\ answer.kind = "request"
    /\ answer.op = "logout"
    /\ answer.token \in removed
    /\ answer.status = 401

\* C4: upload-photo with a token in the registry and a missing image file is
\* answered 400 and calls photo_upload not once.
C4_MissingFileIs400 ==
    (/\ answer.kind = "request"
     /\ answer.op = "upload-photo"
     /\ answer.stage = "body"
     /\ ~answer.file
     /\ answer.token \in DOMAIN active_sessions)
    => (answer.status = 400 /\ answer.calls = 0)

\* C5: a login for a username whose session file an earlier login stored, with
\* a restore the platform accepts, never calls client.login(username,
\* password), puts its token and new client into the registry and answers with
\* the resumed message, which differs from the fresh one.
C5_ResumedLogin ==
    [][(LoginAnswered /\ loop.username \in stored
            /\ loop.username \in session_files /\ answer'.restore = "ok")
        => /\ answer'.cred_calls = 0
           /\ answer'.status = 200
           /\ answer'.message = ResumedMessage
           /\ answer'.message # FreshMessage
           /\ answer'.token \in DOMAIN active_sessions'
           /\ active_sessions'[answer'.token] = loop.client
           /\ loop.client \notin Range(active_sessions)]_vars

C5_Witness ==
    /\ answer.kind = "login"
    /\ answer.username \in stored
    /\ answer.username \in session_files
    /\ answer.restore = "ok"
    /\ answer.message = ResumedMessage
    /\ answer.cred_calls = 0

\* C6: a login that finds the session file but fails to restore it, at any of
\* the three steps and whatever the platform raised, makes the credentialed
\* call; when the platform accepts the credentials the login answers with the
\* fresh message and its token and new client are in the registry.
C6_RestoreFailureFallsThrough ==
    [][(LoginAnswered /\ loop.username \in session_files
            /\ answer'.restore \in RestoreFailures)
        => /\ answer'.cred_calls = 1
           /\ answer'.cred # "none"
           /\ (answer'.cred = "ok"
                 => /\ answer'.status = 200
                    /\ answer'.message = FreshMessage
                    /\ answer'.token \in DOMAIN active_sessions'
                    /\ active_sessions'[answer'.token] = loop.client)]_vars

C6_Witness ==
    /\ answer.kind = "login"
    /\ answer.restore \in ReloginFailures
    /\ answer.cred = "ok"
    /\ answer.message = FreshMessage
    /\ answer.token \in DOMAIN active_sessions

\* C7: the token of a successful login differs from the token of every earlier
\* login of the run (those still in the registry and those logged out), so
\* the login adds one entry to the registry and overwrites none.
C7_TokensUnique ==
    [][(LoginAnswered /\ answer'.status = 200)
        => /\ answer'.token \notin DOMAIN active_sessions
           /\ answer'.token \notin removed
           /\ Cardinality(DOMAIN active_sessions')
                = Cardinality(DOMAIN active_sessions) + 1]_vars

\* C8: a failed credentialed login is answered by the kind of the failure:
\* LoginRequired 400 (bad credentials), ChallengeRequired 400 with the hint,
\* PleaseWaitFewMinutes 429, any other 500 with the platform's message; the
\* credentialed call was made once.
C8_LoginFailureMapping ==
    (answer.kind = "login" /\ answer.cred \notin {"none", "ok"})
    => /\ answer.cred_calls = 1
       /\ answer.token = NoToken
       /\ (answer.cred = "LoginRequired"
             => /\ answer.status = 400
                /\ answer.detail = <<"Credenciales incorrectas">>)
       /\ (answer.cred = "ChallengeRequired"
             => /\ answer.status = 400
                /\ answer.detail =
                     <<"Challenge requerido. Verifica tu cuenta desde la app oficial.">>)
       /\ (answer.cred = "PleaseWaitFewMinutes" => answer.status = 429)
       /\ (answer.cred = "Other"
             => /\ answer.status = 500
                /\ answer.detail = <<"Error interno: ", PlatformMessage>>)

C8_Witness ==
    /\ answer.kind = "login"
    /\ answer.cred = "PleaseWaitFewMinutes"
    /\ answer.status = 429
    /\ answer.cred_calls = 1

C10_PlatformCallDoesNotBlock ==
    (loop.who # "free") => ENABLED health_check

=============================================================================
